---- MODULE Spec2Model ----
(***************************************************************************)
(* A model of script.py, the manual integration-test script for the       *)
(* viamrtsp camera module.                                                 *)
(*                                                                         *)
(* The script is one sequential coroutine.  Its state is the call stack   *)
(* (one frame per active function, the frame's position named after the   *)
(* source line of the statement about to run), the two sessions, the      *)
(* resource handles obtained so far, and the process environment read at  *)
(* import time.  `log` is a history variable: every remote call, sleep and *)
(* prompt the script performs, in order.                                   *)
(*                                                                         *)
(* A behaviour is one invocation of one function of the script (`call`):  *)
(* main() as run by `asyncio.run(main())`, or one of the other functions   *)
(* called directly with arguments drawn from small sets.                   *)
(***************************************************************************)
EXTENDS Integers, Sequences, FiniteSets, TLC

VARIABLES
    env,          \* H264_RTSP_ADDR, H265_RTSP_ADDR as read by os.getenv
    call,         \* the invocation: function name and arguments
    stack,        \* call stack, top frame first
    result,       \* how the invocation ended: return value or exception
    viam_client,  \* control-plane session: "none", "open", "closed"
    machine,      \* device session: "none", "open", "closed"
    handles,      \* resource handles: <<[name, state]>>, id = index
    log           \* history of I/O events

vars == <<env, call, stack, result, viam_client, machine, handles, log>>

(***************************************************************************)
(* Bounds                                                                  *)
(***************************************************************************)
\* lookups of one run that may end without a usable resource
MaxRetries == 3

(***************************************************************************)
(* Values                                                                  *)
(***************************************************************************)
None == "None"

\* Python truthiness of an optional string: `not x`
Falsy(v) == v = None \/ v = ""

Return(v) == [kind |-> "return", val |-> v]
Raise(e) == [kind |-> "raise", val |-> e]
Running == [kind |-> "running", val |-> None]

\* What os.getenv may give for an address variable: unset, empty, or set.
EnvH264 == {None, "", "rtsp://cam/h264"}
EnvH265 == {None, "", "rtsp://cam/h265"}

\* Arguments tried for stream_type.  IntTwo stands for the integer 2, which
\* config_onvif and config_video_store pass.
IntTwo == "int:2"
StreamTypes == {"h264", "h265", "mjpeg", "", IntTwo}

Presets == {"", "medium", "ultrafast"}

DefaultSleepTime == 30
SleepTimes == {DefaultSleepTime, 10}

\* Wall-clock instants for datetime.now(): whole seconds and microseconds.
Nows == {[s |-> 100, us |-> 0], [s |-> 100, us |-> 999999], [s |-> 3600, us |-> 500000]}

Min(a, b) == IF a < b THEN a ELSE b

(***************************************************************************)
(* Config builders                                                         *)
(***************************************************************************)
\* Mutant: the table gives the h264 address for both supported types.
get_rtsp_address_OneAddress(stream_type) ==
    LET rtsp_addr == IF stream_type \in {"h264", "h265"} THEN env.H264_RTSP_ADDR ELSE None
    IN IF Falsy(rtsp_addr) THEN Raise("ValueError") ELSE Return(rtsp_addr)

get_rtsp_address(stream_type) ==
    LET rtsp_addr == CASE stream_type = "h264" -> env.H264_RTSP_ADDR
                       [] stream_type = "h265" -> env.H265_RTSP_ADDR
                       [] OTHER -> None
    IN IF Falsy(rtsp_addr) THEN Raise("ValueError") ELSE Return(rtsp_addr)

ViamRtspModule ==
    [type |-> "registry", name |-> "viam_viamrtsp", module_id |-> "viam:viamrtsp",
     version |-> "latest-with-prerelease"]

VideoStoreModule ==
    [type |-> "registry", name |-> "viam_video-store", module_id |-> "viam:video-store",
     version |-> "latest"]

\* The service's "attributes" is the empty mapping.
OnvifService ==
    [name |-> "onvif-discovery-1", api |-> "rdk:service:discovery",
     model |-> "viam:viamrtsp:onvif"]

\* sync_interval_mins (0.1) is not an integer and is left out.
DataManagerService ==
    [name |-> "data-manager-1", api |-> "rdk:service:data_manager",
     model |-> "rdk:builtin:builtin",
     attributes |-> [tags |-> <<>>, additional_sync_paths |-> <<>>, capture_dir |-> ""]]

RtspCam(rtp_passthrough, rtsp_address) ==
    [name |-> "rtsp-cam-1", namespace |-> "rdk", type |-> "camera",
     model |-> "viam:viamrtsp:rtsp",
     attributes |-> [rtp_passthrough |-> rtp_passthrough, rtsp_address |-> rtsp_address]]

VideoStore(preset) ==
    [name |-> "video-store-1", api |-> "rdk:component:camera",
     model |-> "viam:video:storage",
     attributes |-> [sync |-> "data-manager-1", storage |-> [size_gb |-> 1],
                     video |-> [preset |-> preset],
                     camera |-> "rtsp-cam-1"],
     depends_on |-> <<"data-manager-1">>]

\* config_onvif and config_video_store ask get_rtsp_address for the key 2,
\* which the address table does not have: both raise ValueError whatever the
\* environment holds.  The statements of main after line 274 and those of
\* test_video_store_preset after line 221 are modelled below as written, and
\* no behaviour reaches them.
\*
\* A document without a "services" key has services = <<>>.
config_h2645(rtp_passthrough, stream_type) ==
    LET a == get_rtsp_address(stream_type)
    IN IF a.kind = "raise" THEN a
       ELSE Return([components |-> <<RtspCam(rtp_passthrough, a.val)>>,
                    services |-> <<>>,
                    modules |-> <<ViamRtspModule>>])

config_onvif ==
    LET a == get_rtsp_address(IntTwo)
    IN IF a.kind = "raise" THEN a
       ELSE Return([components |-> <<RtspCam(TRUE, a.val)>>,
                    services |-> <<OnvifService>>,
                    modules |-> <<ViamRtspModule>>])

config_video_store(preset) ==
    LET a == get_rtsp_address(IntTwo)
    IN IF a.kind = "raise" THEN a
       ELSE Return([components |-> <<RtspCam(TRUE, a.val), VideoStore(preset)>>,
                    services |-> <<OnvifService, DataManagerService>>,
                    modules |-> <<ViamRtspModule, VideoStoreModule>>])

(***************************************************************************)
(* Control flow                                                            *)
(*                                                                         *)
(* A frame is [at, arg, h]: `at` names the statement about to run (m = main,*)
(* u = update_and_confirm, w = wait_for_resource, t = test_video_store_-   *)
(* preset, c = a config builder called directly; the number is the source  *)
(* line), `arg` is the frame's argument (the config of update_and_confirm, *)
(* the resource name looked up by wait_for_resource's closure, the preset  *)
(* of test_video_store_preset) and `h` the handle held in the frame's      *)
(* local variable (onvif_discovery, then vid_store; 0 = unset).            *)
(***************************************************************************)
Frame(at, arg, h) == [at |-> at, arg |-> arg, h |-> h]

\* The statement that follows `at` in its function; "ret" = the function returns.
Succ(at) ==
    CASE at = "m253" -> "m255"
      [] at = "m255" -> "m259"
      [] at = "m259" -> "m264"
      [] at = "m264" -> "m269"
      [] at = "m269" -> "m274"
      [] at = "m274" -> "m277"
      [] at = "m277" -> "m278"
      [] at = "m278" -> "m281"
      [] at = "m281" -> "m283"
      [] at = "m283" -> "m287"
      [] at = "m287" -> "m290"
      [] at = "m290" -> "m291"
      [] at = "m291" -> "m294"
      [] at = "m294" -> "m296"
      [] at = "m296" -> "ret"
      [] at = "u192" -> "u193"
      [] at = "u193" -> "ret"
      [] at = "w203" -> "w204"
      [] at = "w204" -> "w200"
      [] at = "t221" -> "t223"
      [] at = "t223" -> "t225"
      [] at = "t225" -> "t230"
      [] at = "t230" -> "t246"
      [] at = "t246" -> "t247"
      [] at = "t247" -> "ret"
      [] OTHER -> "ret"

\* A statement that is only a call enters the callee at once.
Enter(stk) ==
    LET f == Head(stk)
    IN CASE f.at = "m278" -> <<Frame("w200", "onvif-discovery-1", 0)>> \o stk
         [] f.at = "m287" -> <<Frame("t221", "medium", 0)>> \o stk
         [] f.at = "m291" -> <<Frame("t221", "ultrafast", 0)>> \o stk
         [] f.at = "t225" -> <<Frame("w200", "video-store-1", 0)>> \o stk
         [] OTHER -> stk

Goto(stk, at) == Enter(<<[(Head(stk)) EXCEPT !.at = at]>> \o Tail(stk))

\* The top frame returns v: the caller stores a returned handle (line 291
\* discards it) and goes on with its next statement.
Ret(stk, v) ==
    IF Len(stk) = 1 THEN <<>>
    ELSE LET caller == stk[2]
             c2 == IF caller.at \in {"m278", "m287", "t225"}
                   THEN [caller EXCEPT !.h = v] ELSE caller
         IN Goto(<<c2>> \o Tail(Tail(stk)), Succ(caller.at))

\* The top frame's statement completed; the function returns v if it was its last.
Step(stk, v) ==
    IF Succ(Head(stk).at) = "ret" THEN Ret(stk, v) ELSE Goto(stk, Succ(Head(stk).at))

Top == Head(stack)
Terminated == stack = <<>>

Live == {handles[i].name : i \in {j \in DOMAIN handles : handles[j].state = "live"}}

Ev(op, at, outcome, val) ==
    [op |-> op, at |-> at, outcome |-> outcome, val |-> val, live |-> Live]

SleepTime == IF call.fn = "test_video_store_preset" THEN call.sleep_time ELSE DefaultSleepTime

(***************************************************************************)
(* Evaluating a config builder: the argument of update_and_confirm at      *)
(* lines 259, 264, 269, 274 and 221, or a builder called directly.  The    *)
(* builder runs before update_and_confirm is entered, so its ValueError    *)
(* leaves the caller before anything is pushed.                            *)
(***************************************************************************)
BuildLabels == {"m259", "m264", "m269", "m274", "t221", "c60", "c92", "c125"}

BuildAt(f) ==
    CASE f.at = "m259" -> config_h2645(TRUE, "h264")
      [] f.at = "m264" -> config_h2645(FALSE, "h264")
      [] f.at = "m269" -> config_h2645(TRUE, "h265")
      [] f.at = "m274" -> config_onvif
      [] f.at = "t221" -> config_video_store(f.arg)
      [] f.at = "c60" -> config_h2645(call.rtp_passthrough, call.stream_type)
      [] f.at = "c92" -> config_onvif
      [] f.at = "c125" -> config_video_store(call.preset)

BuildStack(stk, r) ==
    IF r.kind = "raise" THEN <<>>
    ELSE IF Head(stk).at \in {"c60", "c92", "c125"} THEN Ret(stk, r.val)
    ELSE <<Frame("u192", r.val, 0)>> \o stk

Build ==
    /\ ~Terminated
    /\ Top.at \in BuildLabels
    /\ LET r == BuildAt(Top)
       IN /\ stack' = BuildStack(stack, r)
          /\ result' = IF stack' = <<>> THEN r ELSE result
    /\ UNCHANGED <<env, call, viam_client, machine, handles, log>>

(***************************************************************************)
(* Awaited remote calls: connect (253), get_robot_part (255),              *)
(* update_robot_part (192), connect_machine (277), discover_resources      *)
(* (281), do_command with the window drawn at 232-244 (246), and the three *)
(* closes (290, 294, 296).  None is inside a try: a failure leaves every   *)
(* frame.                                                                  *)
(***************************************************************************)
RpcLabels == {"m253", "m255", "u192", "m277", "m281", "t246", "m290", "m294", "m296"}

RpcOp(at) ==
    CASE at = "m253" -> "connect"
      [] at = "m255" -> "get_robot_part"
      [] at = "u192" -> "update_robot_part"
      [] at = "m277" -> "connect_machine"
      [] at = "m281" -> "discover_resources"
      [] at = "t246" -> "do_command"
      [] OTHER -> "close"

\* random.randint(2, min(15, sleep_time-1)): both ends included.
RandomSeconds(sleep_time) == 2 .. Min(15, sleep_time - 1)

\* strftime("%Y-%m-%d_%H-%M-%S"): the instant to whole seconds.
Strftime(t) == t.s

SaveCommand(now, random_seconds) ==
    LET from_time == [now EXCEPT !.s = @ - random_seconds]
    IN [command |-> "save", from |-> Strftime(from_time), to |-> Strftime(now),
        metadata |-> "metadata", async |-> TRUE]

\* Mutant: a failed remote call is swallowed and the caller goes on.
RpcStack_Swallow(stk, ok) == Step(stk, None)

\* Mutant: update_and_confirm returns after the push without prompting.
RpcStack_NoPrompt(stk, ok) ==
    IF ~ok THEN <<>>
    ELSE IF Head(stk).at = "u192" THEN Ret(stk, None) ELSE Step(stk, None)

RpcStack(stk, ok) == IF ok THEN Step(stk, None) ELSE <<>>

Rpc ==
    /\ ~Terminated
    /\ Top.at \in RpcLabels
    /\ \E ok \in BOOLEAN,
          now \in IF Top.at = "t246" THEN Nows ELSE {[s |-> 0, us |-> 0]},
          random_seconds \in IF Top.at = "t246" THEN RandomSeconds(SleepTime) ELSE {0} :
          /\ log' = Append(log,
                 Ev(RpcOp(Top.at), Top.at, IF ok THEN "ok" ELSE "error",
                    CASE Top.at = "u192" -> Top.arg
                      [] Top.at = "t246" -> SaveCommand(now, random_seconds)
                      [] OTHER -> None))
          /\ stack' = RpcStack(stack, ok)
          /\ result' = IF stack' # <<>> THEN result
                       ELSE IF ok THEN Return(None) ELSE Raise("RpcError")
          /\ viam_client' = IF ok /\ Top.at = "m253" THEN "open"
                            ELSE IF ok /\ Top.at = "m294" THEN "closed"
                            ELSE viam_client
          /\ machine' = IF ok /\ Top.at = "m277" THEN "open"
                        ELSE IF ok /\ Top.at = "m296" THEN "closed"
                        ELSE machine
          /\ handles' = IF ok /\ Top.at = "m290"
                        THEN [handles EXCEPT ![Top.h].state = "closed"]
                        ELSE handles
    /\ UNCHANGED <<env, call>>

(***************************************************************************)
(* input(prompt): lines 193, 283, 247.  update_and_confirm returns after   *)
(* its prompt, test_video_store_preset returns vid_store after its own.    *)
(***************************************************************************)
InputLabels == {"u193", "m283", "t247"}

Input ==
    /\ ~Terminated
    /\ Top.at \in InputLabels
    /\ log' = Append(log, Ev("input", Top.at, "ok", None))
    /\ stack' = Step(stack, IF Top.at = "t247" THEN Top.h ELSE None)
    /\ result' = IF stack' = <<>>
                 THEN Return(IF Top.at = "t247" THEN Top.h ELSE None) ELSE result
    /\ UNCHANGED <<env, call, viam_client, machine, handles>>

(***************************************************************************)
(* wait_for_resource and safe_refresh_machine                              *)
(***************************************************************************)
Retries == Cardinality({i \in DOMAIN log :
               log[i].op = "lookup" /\ log[i].outcome \in {"notfound", "falsy"}})

\* What resource_getter() may do.  Camera.from_robot and
\* DiscoveryClient.from_robot return a client object or raise; a closure
\* passed to wait_for_resource directly may also return a falsy value.
LookupOutcomes ==
    {"resource", "error"}
      \cup (IF Retries < MaxRetries THEN {"notfound"} ELSE {})
      \cup (IF Retries < MaxRetries /\ call.fn = "wait_for_resource" THEN {"falsy"} ELSE {})

\* Mutant: the not-found handler refreshes without sleeping first.
LookupStack_NoSleep(stk, outcome, rid) ==
    CASE outcome = "resource" -> Ret(stk, rid)
      [] outcome = "notfound" -> Goto(stk, "w204")
      [] outcome = "falsy" -> stk
      [] OTHER -> <<>>

\* Lines 198-205: a usable resource ends the loop and is returned; the
\* not-found error goes to the sleep of line 203; a falsy return value runs
\* the loop test again; any other exception leaves the function.
LookupStack(stk, outcome, rid) ==
    CASE outcome = "resource" -> Ret(stk, rid)
      [] outcome = "notfound" -> Goto(stk, "w203")
      [] outcome = "falsy" -> stk
      [] OTHER -> <<>>

Lookup ==
    /\ ~Terminated
    /\ Top.at = "w200"
    /\ \E outcome \in LookupOutcomes :
          LET rid == Len(handles) + 1
          IN /\ log' = Append(log, Ev("lookup", Top.at, outcome,
                                      IF outcome = "resource" THEN rid ELSE 0))
             /\ handles' = IF outcome = "resource"
                           THEN Append(handles, [name |-> Top.arg, state |-> "live"])
                           ELSE handles
             /\ stack' = LookupStack(stack, outcome, rid)
             /\ result' = IF stack' # <<>> THEN result
                          ELSE IF outcome = "resource" THEN Return(rid)
                          ELSE Raise("LookupError")
    /\ UNCHANGED <<env, call, viam_client, machine>>

\* asyncio.sleep: line 203 (one second) and line 230 (sleep_time).
SleepLabels == {"w203", "t230"}

Sleep ==
    /\ ~Terminated
    /\ Top.at \in SleepLabels
    /\ log' = Append(log, Ev("sleep", Top.at, "ok",
                             IF Top.at = "w203" THEN 1 ELSE SleepTime))
    /\ stack' = Step(stack, None)
    /\ UNCHANGED <<env, call, result, viam_client, machine, handles>>

\* safe_refresh_machine, called at lines 204 and 223: one machine.refresh(),
\* whose exception is printed and dropped.
RefreshLabels == {"w204", "t223"}

\* Mutant: no try/except around machine.refresh().
RefreshStack_Propagate(stk, ok) == IF ok THEN Step(stk, None) ELSE <<>>

RefreshStack(stk, ok) == Step(stk, None)

Refresh ==
    /\ ~Terminated
    /\ Top.at \in RefreshLabels
    /\ \E ok \in BOOLEAN :
          /\ log' = Append(log, Ev("refresh", Top.at, IF ok THEN "ok" ELSE "error", None))
          /\ stack' = RefreshStack(stack, ok)
          /\ result' = IF stack' = <<>> THEN Raise("RefreshError") ELSE result
    /\ UNCHANGED <<env, call, viam_client, machine, handles>>

(***************************************************************************)
(* Specification                                                           *)
(***************************************************************************)
NoArgs == [rtp_passthrough |-> FALSE, stream_type |-> None, preset |-> None,
           sleep_time |-> DefaultSleepTime, name |-> None]

CallOf(fn) == [fn |-> fn] @@ NoArgs

Calls ==
    {CallOf("main"), CallOf("config_onvif")}
      \cup {[CallOf("wait_for_resource") EXCEPT !.name = n] :
               n \in {"onvif-discovery-1", "video-store-1"}}
      \cup {[CallOf("test_video_store_preset") EXCEPT !.preset = p, !.sleep_time = t] :
               p \in Presets, t \in SleepTimes}
      \cup {[CallOf("config_h2645") EXCEPT !.rtp_passthrough = b, !.stream_type = st] :
               b \in BOOLEAN, st \in StreamTypes}
      \cup {[CallOf("config_video_store") EXCEPT !.preset = p] : p \in Presets}

Entry(c) ==
    CASE c.fn = "main" -> Frame("m253", None, 0)
      [] c.fn = "wait_for_resource" -> Frame("w200", c.name, 0)
      [] c.fn = "test_video_store_preset" -> Frame("t221", c.preset, 0)
      [] c.fn = "config_h2645" -> Frame("c60", None, 0)
      [] c.fn = "config_onvif" -> Frame("c92", None, 0)
      [] c.fn = "config_video_store" -> Frame("c125", None, 0)

\* main opens both sessions itself; the functions that take `cloud` or
\* `machine` are called with a session that is already open.
Init ==
    /\ env \in [H264_RTSP_ADDR : EnvH264, H265_RTSP_ADDR : EnvH265]
    /\ call \in Calls
    /\ stack = <<Entry(call)>>
    /\ result = Running
    /\ viam_client = IF call.fn = "test_video_store_preset" THEN "open" ELSE "none"
    /\ machine = IF call.fn \in {"wait_for_resource", "test_video_store_preset"}
                 THEN "open" ELSE "none"
    /\ handles = <<>>
    /\ log = <<>>

Next == Build \/ Rpc \/ Input \/ Lookup \/ Sleep \/ Refresh

Spec == Init /\ [][Next]_vars

(***************************************************************************)
(* Properties                                                              *)
(***************************************************************************)
Events(op) == {i \in DOMAIN log : log[i].op = op}
Lookups(outcome) == {i \in Events("lookup") : log[i].outcome = outcome}
Pushes == Events("update_robot_part")

\* No remote call, lookup or refresh of the run failed.
NoExternalFailure == \A i \in DOMAIN log : log[i].outcome \in {"ok", "resource"}
EnvConfigured == ~Falsy(env.H264_RTSP_ADDR) /\ ~Falsy(env.H265_RTSP_ADDR)

Names(seq) == {seq[i].name : i \in DOMAIN seq}

\* C1: wait_for_resource called with a closure that raises not-found N times
\* and then returns a resource makes N+1 lookups, N sleeps and N refreshes,
\* each not-found lookup followed by one sleep, then one refresh, then the
\* next lookup, and returns that resource; a lookup raising any other error
\* is the last thing wait_for_resource does.
C1_WaitLoop ==
    call.fn = "wait_for_resource" =>
        /\ \A i \in Lookups("notfound") :
              /\ i + 1 \in DOMAIN log => log[i + 1].op = "sleep"
              /\ i + 2 \in DOMAIN log => log[i + 2].op = "refresh"
              /\ i + 3 \in DOMAIN log => log[i + 3].op = "lookup"
        /\ (result.kind = "return" /\ Lookups("falsy") = {}) =>
              LET N == Cardinality(Lookups("notfound"))
              IN /\ Cardinality(Events("lookup")) = N + 1
                 /\ Cardinality(Events("sleep")) = N
                 /\ Cardinality(Events("refresh")) = N
                 /\ Len(log) = 3 * N + 1
                 /\ log[Len(log)].op = "lookup"
                 /\ log[Len(log)].outcome = "resource"
                 /\ result.val = log[Len(log)].val
        /\ \A i \in Lookups("error") :
              /\ i = Len(log)
              /\ Terminated
              /\ result = Raise("LookupError")

C1_Witness ==
    /\ call.fn = "wait_for_resource"
    /\ result.kind = "return"
    /\ Lookups("falsy") = {}
    /\ Cardinality(Lookups("notfound")) = 2

\* C2: when main has returned or raised, no session it opened is still open.
C2_SessionsClosedOnExit ==
    (call.fn = "main" /\ Terminated) => (viam_client # "open" /\ machine # "open")

\* C3: a run of main in which nothing outside the script fails sends both
\* storage pushes, and no push is sent while the run holds a live handle for
\* a resource name the pushed configuration declares.
C3_ReleaseBeforeReconfigure ==
    /\ \A i \in Pushes :
          log[i].live \cap (Names(log[i].val.components) \cup Names(log[i].val.services)) = {}
    /\ (call.fn = "main" /\ Terminated /\ NoExternalFailure /\ EnvConfigured) =>
          Cardinality({i \in Pushes : "video-store-1" \in Names(log[i].val.components)}) = 2

SupportedAddress(stream_type) ==
    IF stream_type = "h264" THEN env.H264_RTSP_ADDR ELSE env.H265_RTSP_ADDR

IsCodecDocument(doc, rtp_passthrough, address) ==
    /\ Len(doc.components) = 1
    /\ doc.components[1].name = "rtsp-cam-1"
    /\ doc.components[1].attributes.rtp_passthrough = rtp_passthrough
    /\ doc.components[1].attributes.rtsp_address = address

\* C4 as claimed: config_h2645 returns the codec document for every supported
\* stream type and raises ValueError for every other one.
C4_Original ==
    (call.fn = "config_h2645" /\ Terminated) =>
        IF call.stream_type \in {"h264", "h265"}
        THEN /\ result.kind = "return"
             /\ IsCodecDocument(result.val, call.rtp_passthrough,
                                SupportedAddress(call.stream_type))
        ELSE result = Raise("ValueError")

\* C4 as amended: config_h2645 returns the codec document for a supported
\* stream type whose address variable is set and not empty, and raises
\* ValueError otherwise: for an unsupported stream type, and for a supported
\* one whose address is unset or empty.
C4_CodecConfig ==
    (call.fn = "config_h2645" /\ Terminated) =>
        IF call.stream_type \in {"h264", "h265"}
           /\ ~Falsy(SupportedAddress(call.stream_type))
        THEN /\ result.kind = "return"
             /\ IsCodecDocument(result.val, call.rtp_passthrough,
                                SupportedAddress(call.stream_type))
        ELSE result = Raise("ValueError")

C4_Witness ==
    /\ call.fn = "config_h2645"
    /\ call.stream_type = "h265"
    /\ ~call.rtp_passthrough
    /\ result.kind = "return"

\* C5: config_video_store(preset) returns, for every preset, a document with
\* a service 'data-manager-1' and a component 'video-store-1' whose depends_on
\* is exactly <<'data-manager-1'>> and whose video preset is the given one.
C5_StorageConfig ==
    (call.fn = "config_video_store" /\ Terminated) =>
        /\ result.kind = "return"
        /\ "data-manager-1" \in Names(result.val.services)
        /\ \E i \in DOMAIN result.val.components :
              LET c == result.val.components[i]
              IN /\ c.name = "video-store-1"
                 /\ c.depends_on = <<"data-manager-1">>
                 /\ c.attributes.video.preset = call.preset

\* C6: test_video_store_preset with the default warm-up, when nothing outside
\* the script fails, sends a save command with async set, metadata
\* 'metadata' and a window of 2 to 14 seconds.
C6_SaveCommand ==
    (/\ call.fn = "test_video_store_preset"
     /\ call.sleep_time = DefaultSleepTime
     /\ Terminated
     /\ NoExternalFailure) =>
        \E i \in Events("do_command") :
            /\ log[i].val.command = "save"
            /\ log[i].val.async
            /\ log[i].val.metadata = "metadata"
            /\ log[i].val.to - log[i].val.from \in 2 .. 14

Describe(doc) ==
    IF "video-store-1" \in Names(doc.components)
    THEN [kind |-> "storage", rtp_passthrough |-> TRUE,
          with |-> doc.components[2].attributes.video.preset]
    ELSE IF "onvif-discovery-1" \in Names(doc.services)
    THEN [kind |-> "discovery", rtp_passthrough |-> TRUE, with |-> None]
    ELSE [kind |-> "codec",
          rtp_passthrough |-> doc.components[1].attributes.rtp_passthrough,
          with |-> doc.components[1].attributes.rtsp_address]

PushedDocuments ==
    LET F[i \in 0 .. Len(log)] ==
            IF i = 0 THEN <<>>
            ELSE IF log[i].op = "update_robot_part"
            THEN Append(F[i - 1], Describe(log[i].val)) ELSE F[i - 1]
    IN F[Len(log)]

\* C7: when nothing outside the script fails, main pushes the six
\* configurations in order and returns normally.
C7_SixPushes ==
    (call.fn = "main" /\ Terminated /\ NoExternalFailure /\ EnvConfigured) =>
        /\ result = Return(None)
        /\ PushedDocuments =
              << [kind |-> "codec", rtp_passthrough |-> TRUE, with |-> env.H264_RTSP_ADDR],
                 [kind |-> "codec", rtp_passthrough |-> FALSE, with |-> env.H264_RTSP_ADDR],
                 [kind |-> "codec", rtp_passthrough |-> TRUE, with |-> env.H265_RTSP_ADDR],
                 [kind |-> "discovery", rtp_passthrough |-> TRUE, with |-> None],
                 [kind |-> "storage", rtp_passthrough |-> TRUE, with |-> "medium"],
                 [kind |-> "storage", rtp_passthrough |-> TRUE, with |-> "ultrafast"] >>

\* C8: a failure of anything but a machine refresh ends the run: the failed
\* call is the last event of the run (no prompt, push, lookup or command
\* follows it), and a run that raised has left every frame.
C8_FailureEndsRun ==
    /\ \A i \in DOMAIN log :
          (log[i].outcome = "error" /\ log[i].op # "refresh") =>
              /\ i = Len(log)
              /\ Terminated
              /\ result.kind = "raise"
    /\ result.kind = "raise" => Terminated

C8_Witness ==
    /\ call.fn = "main"
    /\ Len(log) >= 5
    /\ log[Len(log)].op = "update_robot_part"
    /\ log[Len(log)].outcome = "error"
    /\ Terminated

Between(i, j) == {k \in DOMAIN log : i < k /\ k < j}

C10_RefreshNeverFatal ==
    /\ result # Raise("RefreshError")
    /\ \A i \in Events("refresh") :
          IF i < Len(log)
          THEN log[i + 1].op = "lookup"
          ELSE ~Terminated /\ Top.at = "w200"

C10_Witness ==
    \E i \in Events("refresh") :
        /\ log[i].outcome = "error"
        /\ i < Len(log)
        /\ log[i + 1].op = "lookup"

====
